---------------------------- MODULE Spec2Model ----------------------------
(***************************************************************************)
(* Model of the NPCM8xx clock driver, drivers/clk/nuvoton/clk_npcm8xx.c.   *)
(*                                                                         *)
(* The state is the clock controller's register file.  A 32-bit register   *)
(* word (u32) is the set of the indices of its set bits, so that the C     *)
(* operators &, |, ~, << and >> are modelled at their full width.  Numbers *)
(* (field values, rates, divisors) are integers; an unsigned long return   *)
(* value is written in its two's-complement reading, so that the value     *)
(* (ulong)-ENOSYS is the integer -ENOSYS.                                  *)
(***************************************************************************)
EXTENDS Integers, Sequences, FiniteSets

(***************************************************************************)
(* u32 words as bit sets                                                   *)
(***************************************************************************)
Bits32 == 0..31

GENMASK(h, l) == l..h

BIT(n) == {n}

\* The least element of a non-empty set of bit indices.
LowestBit(w) == CHOOSE i \in w : \A j \in w : i <= j

\* ffs(): one plus the index of the least significant set bit, 0 for 0.
ffs(w) == IF w = {} THEN 0 ELSE LowestBit(w) + 1

\* a << s and a >> s on u32: bits shifted out are lost.
Shl(w, s) == {i + s : i \in w} \cap Bits32

Shr(w, s) == {i - s : i \in {j \in w : j >= s}}

\* ~a on u32.
Not32(w) == Bits32 \ w

\* The number a word holds (words of at most 31 significant bits): the sum
\* of 2^i over its set bits i.
RECURSIVE u32_val(_)
u32_val(w) == IF w = {} THEN 0
              ELSE LET i == CHOOSE j \in w : TRUE IN 2^i + u32_val(w \ {i})

\* The bits of a non-negative number below 2^31.
NatBits(n) == {i \in 0..30 : (n \div (2^i)) % 2 = 1}

\* Conversion of an integer to u32: a negative number wraps (two's complement).
u32_bits(n) == IF n >= 0 THEN NatBits(n) ELSE Bits32 \ NatBits(-n - 1)


(***************************************************************************)
(* Register offsets, masks, select values and flags                        *)
(***************************************************************************)
CLKSEL == 4

CLKDIV1 == 8

CLKDIV2 == 44

CLKDIV3 == 88

PLLCON0 == 12

PLLCON1 == 16

PLLCON2 == 84

RegOffsets == {CLKSEL, CLKDIV1, CLKDIV2, CLKDIV3, PLLCON0, PLLCON1, PLLCON2}

PLLCON_INDV == GENMASK(5, 0)

PLLCON_FBDV == GENMASK(27, 16)

PLLCON_OTDV1 == GENMASK(10, 8)

PLLCON_OTDV2 == GENMASK(15, 13)

CPUCKSEL == GENMASK(2, 0)

SDCKSEL == GENMASK(7, 6)

UARTCKSEL == GENMASK(9, 8)

CPUCKSEL_PLL0 == 0

CPUCKSEL_PLL1 == 1

CPUCKSEL_REFCLK == 2

CPUCKSEL_PLL2 == 7

CKSEL_PLL0 == 0

CKSEL_PLL1 == 1

CKSEL_REFCLK == 2

CKSEL_PLL2 == 3

CLK4DIV == GENMASK(27, 26)

UARTDIV1 == GENMASK(20, 16)

MMCCKDIV == GENMASK(15, 11)

APB2CKDIV == GENMASK(27, 26)

APB5CKDIV == GENMASK(23, 22)

UARTDIV2 == GENMASK(15, 11)

FIXED_SRC == BIT(0)

DIV_TYPE1 == BIT(1)

DIV_TYPE2 == BIT(2)

PRE_DIV2 == BIT(3)

POST_DIV2 == BIT(4)

REFCLK_25M == 25000000

NONE == -1

\* errno values; a function returning -EINVAL or -ENOSYS returns the negation.
EINVAL == 22

ENOSYS == 38

(***************************************************************************)
(* Clock ids.  The numbers come from dt-bindings/clock/npcm845-clock.h;    *)
(* the driver only compares ids for equality and against CLK_COUNT, so an  *)
(* id is modelled by its name.  CLK_UNLISTED stands for any id below       *)
(* CLK_COUNT that neither the table nor a switch names.                    *)
(***************************************************************************)
CLK_REFCLK == "CLK_REFCLK"

CLK_PLL0 == "CLK_PLL0"

CLK_PLL1 == "CLK_PLL1"

CLK_PLL2 == "CLK_PLL2"

CLK_PLL2DIV2 == "CLK_PLL2DIV2"

CLK_AHB == "CLK_AHB"

CLK_APB2 == "CLK_APB2"

CLK_APB5 == "CLK_APB5"

CLK_UART1 == "CLK_UART1"

CLK_UART2 == "CLK_UART2"

CLK_SDHC == "CLK_SDHC"

CLK_UNLISTED == "CLK_UNLISTED"

\* The ids below CLK_COUNT.
ClkIds == {CLK_REFCLK, CLK_PLL0, CLK_PLL1, CLK_PLL2, CLK_PLL2DIV2, CLK_AHB,
           CLK_APB2, CLK_APB5, CLK_UART1, CLK_UART2, CLK_SDHC, CLK_UNLISTED}

\* (int)NONE in a parent_id, and the int -EINVAL stored in an id: no id at all.
NoParent == "NONE"

EINVAL_ID == "-EINVAL"

CLK_MAP_SIZE == 3

npcm8xx_cpu_clksel_map ==
    << [clkid |-> CLK_PLL0, clksel |-> CPUCKSEL_PLL0],
       [clkid |-> CLK_PLL1, clksel |-> CPUCKSEL_PLL1],
       [clkid |-> CLK_PLL2, clksel |-> CPUCKSEL_PLL2] >>

\* npcm8xx_clksel_map with CKSEL_PLL2 on PLL2's raw output.
npcm8xx_clksel_map_RawPll2 ==
    << [clkid |-> CLK_PLL0, clksel |-> CKSEL_PLL0],
       [clkid |-> CLK_PLL1, clksel |-> CKSEL_PLL1],
       [clkid |-> CLK_PLL2, clksel |-> CKSEL_PLL2] >>

npcm8xx_clksel_map ==
    << [clkid |-> CLK_PLL0, clksel |-> CKSEL_PLL0],
       [clkid |-> CLK_PLL1, clksel |-> CKSEL_PLL1],
       [clkid |-> CLK_PLL2DIV2, clksel |-> CKSEL_PLL2] >>

\* One row of npcm8xx_clks; the u32 members are words.
Clk(id, parent, reg, div_mask, sel_mask, sel_val, flags) ==
    [id |-> id, parent_id |-> parent, reg_clkdiv |-> reg, div_mask |-> div_mask,
     sel_mask |-> sel_mask, sel_val |-> sel_val, flags |-> flags]

npcm8xx_clks ==
    << Clk(CLK_PLL0, CLK_REFCLK, PLLCON0, u32_bits(NONE), u32_bits(NONE),
           u32_bits(NONE), FIXED_SRC),
       Clk(CLK_PLL1, CLK_REFCLK, PLLCON1, u32_bits(NONE), u32_bits(NONE),
           u32_bits(NONE), FIXED_SRC),
       Clk(CLK_PLL2, CLK_REFCLK, PLLCON2, u32_bits(NONE), u32_bits(NONE),
           u32_bits(NONE), FIXED_SRC),
       Clk(CLK_PLL2DIV2, CLK_REFCLK, PLLCON2, u32_bits(NONE), u32_bits(NONE),
           u32_bits(NONE), FIXED_SRC \cup POST_DIV2),
       Clk(CLK_AHB, NoParent, CLKDIV1, CLK4DIV, CPUCKSEL,
           u32_bits(NONE), DIV_TYPE1 \cup PRE_DIV2),
       Clk(CLK_APB2, CLK_AHB, CLKDIV2, APB2CKDIV, u32_bits(NONE),
           u32_bits(NONE), FIXED_SRC \cup DIV_TYPE2),
       Clk(CLK_APB5, CLK_AHB, CLKDIV2, APB5CKDIV, u32_bits(NONE),
           u32_bits(NONE), FIXED_SRC \cup DIV_TYPE2),
       Clk(CLK_UART1, CLK_PLL2DIV2, CLKDIV1, UARTDIV1, UARTCKSEL,
           u32_bits(CKSEL_PLL2), DIV_TYPE1),
       Clk(CLK_UART2, CLK_PLL2DIV2, CLKDIV3, UARTDIV2, UARTCKSEL,
           u32_bits(CKSEL_PLL2), DIV_TYPE1),
       Clk(CLK_SDHC, CLK_PLL0, CLKDIV1, MMCCKDIV, SDCKSEL,
           u32_bits(CKSEL_PLL0), DIV_TYPE1) >>

(***************************************************************************)
(* Lookups                                                                 *)
(***************************************************************************)
\* The first row of a selector map with the given clksel, -EINVAL if none.
MapLookup(map, clksel) ==
    IF \E i \in 1..CLK_MAP_SIZE : map[i].clksel = clksel
    THEN LET i == CHOOSE k \in 1..CLK_MAP_SIZE :
                      /\ map[k].clksel = clksel
                      /\ \A j \in 1..(k - 1) : map[j].clksel # clksel
         IN map[i].clkid
    ELSE EINVAL_ID

\* clksel is a u8 parameter; mask chooses the map.
clksel_to_clkid(clksel, mask) ==
    IF mask = CPUCKSEL
    THEN MapLookup(npcm8xx_cpu_clksel_map, clksel % 256)
    ELSE MapLookup(npcm8xx_clksel_map, clksel % 256)

\* The index of the first row with the id; 0 stands for NULL.
npcm_clk_get(clk_id) ==
    IF \E i \in 1..Len(npcm8xx_clks) : npcm8xx_clks[i].id = clk_id
    THEN CHOOSE k \in 1..Len(npcm8xx_clks) :
             /\ npcm8xx_clks[k].id = clk_id
             /\ \A j \in 1..(k - 1) : npcm8xx_clks[j].id # clk_id
    ELSE 0

\* .request: ids at or above CLK_COUNT are refused.
npcm_clk_request(id) == IF id \notin ClkIds THEN -EINVAL ELSE 0

(***************************************************************************)
(* Arithmetic.  unsigned long is 64 bits wide on this SoC (AArch64); the   *)
(* rates of the model stay below 2^31, so no unsigned long operation       *)
(* wraps.  A division by zero is undefined behaviour: ub names what the    *)
(* build makes of it, "trap" (the exception handler is entered and the     *)
(* call never returns) or "zero" (the AArch64 UDIV result).                *)
(***************************************************************************)
UbOutcomes == {"trap", "zero"}

\* A call's result: a returned unsigned long, or no return at all.
Ret(v) == [trap |-> FALSE, val |-> v]

Trap == [trap |-> TRUE, val |-> 0]

\* n / d on unsigned operands, and do_div(n, d)'s quotient.
udiv(n, d, ub) ==
    IF d = 0 THEN (IF ub = "trap" THEN Trap ELSE Ret(0)) ELSE Ret(n \div d)

DIV_ROUND_UP(n, d, ub) == udiv(n + d - 1, d, ub)

\* ret = (u64)a * b; do_div(ret, d): the 64-bit product of a rate and a
\* 12-bit field never wraps, so the quotient is that of the exact product.
\* It is computed as (a div d) * b + ((a mod d) * b) div d, which is the
\* same number and keeps every intermediate value below 2^31.
muldiv64(a, b, d, ub) ==
    IF d = 0 THEN (IF ub = "trap" THEN Trap ELSE Ret(0))
    ELSE Ret((a \div d) * b + ((a % d) * b) \div d)

RECURSIVE ilog2(_)
ilog2(n) == IF n <= 1 THEN 0 ELSE 1 + ilog2(n \div 2)

\* (val & mask) >> (ffs(mask) - 1), as a number; FIELD_GET(mask, val) is the same.
FIELD_GET(mask, val) == u32_val(Shr(val \cap mask, ffs(mask) - 1))

\* FieldInsert without the final "& mask": a field too wide spills over.
FieldInsert_NoMask(val, mask, field) ==
    (val \cap Not32(mask)) \cup Shl(field, ffs(mask) - 1)

\* val &= ~mask; val |= (field << (ffs(mask) - 1)) & mask, field a u32 word.
FieldInsert(val, mask, field) ==
    (val \cap Not32(mask)) \cup (Shl(field, ffs(mask) - 1) \cap mask)

(***************************************************************************)
(* Rate queries.  r is the register file, a function from offsets to words.*)
(***************************************************************************)
RECURSIVE npcm_clk_get_rate(_, _, _)

\* clk_request() on the driver's own device, then clk_get_rate().
clk_request(id) == npcm_clk_request(id)

clk_get_rate(r, id, ub) == npcm_clk_get_rate(r, id, ub)

\* The parent's id: the fixed parent, or the one the mux field selects.
ParentId(r, clk) ==
    IF clk.flags \cap FIXED_SRC # {}
    THEN clk.parent_id
    ELSE clksel_to_clkid(FIELD_GET(clk.sel_mask, r[CLKSEL]), clk.sel_mask)

\* The request and the rate query on a parent id.
ParentRate(r, parent, ub) ==
    IF clk_request(parent) # 0 THEN Ret(0) ELSE clk_get_rate(r, parent, ub)

npcm_clk_get_fin(r, clk, ub) == ParentRate(r, ParentId(r, clk), ub)

\* FoutDiv without the PRE_DIV2 doubling.
FoutDiv_NoPreDiv(clk, clkdiv) ==
    IF clk.flags \cap DIV_TYPE1 # {} THEN clkdiv + 1 ELSE 2^clkdiv

\* The divisor a divider field stands for.
FoutDiv(clk, clkdiv) ==
    LET div == IF clk.flags \cap DIV_TYPE1 # {} THEN clkdiv + 1 ELSE 2^clkdiv
    IN IF clk.flags \cap PRE_DIV2 # {} THEN div * 2 ELSE div

\* npcm_clk_get_fout() from the read of the divider register on.
FoutFrom(clk, parent_rate, val, ub) ==
    IF parent_rate.trap THEN Trap
    ELSE udiv(parent_rate.val, FoutDiv(clk, FIELD_GET(clk.div_mask, val)), ub)

npcm_clk_get_fout(r, id, ub) ==
    LET k == npcm_clk_get(id) IN
    IF k = 0 THEN Ret(0)
    ELSE FoutFrom(npcm8xx_clks[k], npcm_clk_get_fin(r, npcm8xx_clks[k], ub),
                  r[npcm8xx_clks[k].reg_clkdiv], ub)

\* do_div(ret, 2) when POST_DIV2 is set.
PostDiv(clk, ret, ub) ==
    IF ret.trap THEN Trap
    ELSE IF clk.flags \cap POST_DIV2 # {} THEN udiv(ret.val, 2, ub)
    ELSE ret

\* PllRateFrom with the second output divider left out of the divisor.
PllRateFrom_NoOtdv2(clk, parent_rate, val, ub) ==
    IF parent_rate.trap THEN Trap
    ELSE PostDiv(clk, muldiv64(parent_rate.val, FIELD_GET(PLLCON_FBDV, val),
                               FIELD_GET(PLLCON_INDV, val) * FIELD_GET(PLLCON_OTDV1, val),
                               ub), ub)

\* npcm_clk_get_pll_rate() from the read of the PLLCON register on.
PllRateFrom(clk, parent_rate, val, ub) ==
    LET indv == FIELD_GET(PLLCON_INDV, val)
        fbdv == FIELD_GET(PLLCON_FBDV, val)
        otdv1 == FIELD_GET(PLLCON_OTDV1, val)
        otdv2 == FIELD_GET(PLLCON_OTDV2, val)
    IN IF parent_rate.trap THEN Trap
       ELSE PostDiv(clk, muldiv64(parent_rate.val, fbdv, indv * otdv1 * otdv2, ub), ub)

npcm_clk_get_pll_rate(r, id, ub) ==
    LET k == npcm_clk_get(id) IN
    IF k = 0 THEN Ret(0)
    ELSE PllRateFrom(npcm8xx_clks[k], npcm_clk_get_fin(r, npcm8xx_clks[k], ub),
                     r[npcm8xx_clks[k].reg_clkdiv], ub)

npcm_clk_get_rate(r, id, ub) ==
    CASE id = CLK_REFCLK -> Ret(REFCLK_25M)
      [] id \in {CLK_PLL0, CLK_PLL1, CLK_PLL2, CLK_PLL2DIV2} ->
             npcm_clk_get_pll_rate(r, id, ub)
      [] id \in {CLK_AHB, CLK_APB2, CLK_APB5} -> npcm_clk_get_fout(r, id, ub)
      [] OTHER -> Ret(-ENOSYS)

(***************************************************************************)
(* Rate programming.  The result carries the register file as the call     *)
(* leaves it, the returned value, and the parent rate and divisor used     *)
(* (fin and div are -1 where the call did not get to compute them).  div   *)
(* is a u32; the divisors of the model stay below 2^31.                    *)
(***************************************************************************)
SetResult(r, ret, fin, div) == [regs |-> r, ret |-> ret, fin |-> fin, div |-> div]

\* The write of the mux field ("Select source").
SelectSource(r, clk) ==
    [r EXCEPT ![CLKSEL] = FieldInsert(r[CLKSEL], clk.sel_mask, clk.sel_val)]

\* The divider field for a divisor, as a u32.
FoutClkdiv(clk, div) ==
    IF clk.flags \cap DIV_TYPE1 # {} THEN div - 1 ELSE ilog2(div)

\* The write of the divider field.
WriteClkdiv(r, clk, div) ==
    [r EXCEPT ![clk.reg_clkdiv] =
        FieldInsert(r[clk.reg_clkdiv], clk.div_mask, u32_bits(FoutClkdiv(clk, div)))]

\* npcm_clk_set_fout() once the divisor is computed.
SetFoutDiv(r1, clk, fin, d, ub) ==
    IF d.trap THEN SetResult(r1, Trap, fin, -1)
    ELSE SetResult(WriteClkdiv(r1, clk, d.val), udiv(fin, d.val, ub), fin, d.val)

\* npcm_clk_set_fout() once the parent rate is read.
SetFoutFrom(r1, clk, parent_rate, rate, ub) ==
    IF parent_rate.trap THEN SetResult(r1, Trap, -1, -1)
    ELSE SetFoutDiv(r1, clk, parent_rate.val,
                    DIV_ROUND_UP(parent_rate.val, rate, ub), ub)

\* npcm_clk_set_fout() once the source is selected.
SetFoutSelected(r1, clk, rate, ub) ==
    SetFoutFrom(r1, clk, npcm_clk_get_fin(r1, clk, ub), rate, ub)

npcm_clk_set_fout(r, id, rate, ub) ==
    LET k == npcm_clk_get(id) IN
    IF k = 0 THEN SetResult(r, Ret(0), -1, -1)
    ELSE SetFoutSelected(SelectSource(r, npcm8xx_clks[k]), npcm8xx_clks[k], rate, ub)

\* npcm_clk_set_rate with a case for CLK_AHB as well.
npcm_clk_set_rate_WithAhb(r, id, rate, ub) ==
    IF id \in {CLK_SDHC, CLK_UART1, CLK_UART2, CLK_AHB}
    THEN npcm_clk_set_fout(r, id, rate, ub)
    ELSE SetResult(r, Ret(-ENOSYS), -1, -1)

npcm_clk_set_rate(r, id, rate, ub) ==
    IF id \in {CLK_SDHC, CLK_UART1, CLK_UART2}
    THEN npcm_clk_set_fout(r, id, rate, ub)
    ELSE SetResult(r, Ret(-ENOSYS), -1, -1)

(***************************************************************************)
(* Register contents the model starts from                                 *)
(***************************************************************************)
\* A word with the number n in the field whose lowest bit is lo.
FieldAt(lo, n) == {i + lo : i \in NatBits(n)}

\* A PLLCONn word: INDV 5:0, FBDV 27:16, OTDV1 10:8, OTDV2 15:13; other are
\* bits outside the four divider fields.
PllWord(indv, fbdv, otdv1, otdv2, other) ==
    FieldAt(0, indv) \cup FieldAt(16, fbdv) \cup FieldAt(8, otdv1)
        \cup FieldAt(13, otdv2) \cup other

\* A CLKSEL word: CPUCKSEL 2:0, SDCKSEL 7:6, UARTCKSEL 9:8.
ClkselWord(cpu, sd, uart, other) ==
    FieldAt(0, cpu) \cup FieldAt(6, sd) \cup FieldAt(8, uart) \cup other

\* A CLKDIV1 word: CLK4DIV 27:26, UARTDIV1 20:16, MMCCKDIV 15:11.
Clkdiv1Word(clk4, uart1, mmc, other) ==
    FieldAt(26, clk4) \cup FieldAt(16, uart1) \cup FieldAt(11, mmc) \cup other

\* A CLKDIV2 word: APB2CKDIV 27:26, APB5CKDIV 23:22.
Clkdiv2Word(apb2, apb5, other) == FieldAt(26, apb2) \cup FieldAt(22, apb5) \cup other

\* A CLKDIV3 word: UARTDIV2 15:11.
Clkdiv3Word(uart2, other) == FieldAt(11, uart2) \cup other

\* The three PLLCON words <<PLLCON0, PLLCON1, PLLCON2>>.  Among them: 800 MHz
\* with the lock bit (31) set, 166,666,666 Hz and 533,333,333 Hz (inexact
\* quotients, and an odd rate to halve), a zero feedback divider (0 Hz), and
\* a zero input divider, first and second output divider, and every field at
\* its maximum (33,163,265 Hz).
PllconWords ==
    { << PllWord(1, 64, 2, 1, {31}), PllWord(3, 40, 1, 2, {12}), PllWord(3, 64, 1, 1, {7, 31}) >>,
      << PllWord(1, 0, 1, 1, {}),    PllWord(3, 40, 1, 2, {}),   PllWord(1, 64, 2, 1, {}) >>,
      << PllWord(0, 64, 1, 1, {}),   PllWord(63, 4095, 7, 7, {}), PllWord(3, 64, 1, 1, {}) >>,
      << PllWord(1, 64, 2, 1, {}),   PllWord(2, 32, 1, 0, {}),   PllWord(1, 0, 7, 7, {31}) >>,
      << PllWord(1, 64, 2, 1, {}),   PllWord(3, 40, 1, 2, {}),   PllWord(1, 32, 0, 1, {}) >> }

\* The CPU mux on PLL0, PLL1, the reference clock, an unnamed encoding and
\* PLL2; the SD and UART muxes on mapped and unmapped encodings.
ClkselWords == {ClkselWord(0, 2, 2, {}), ClkselWord(1, 1, 3, {4, 31}),
                ClkselWord(2, 0, 1, {}), ClkselWord(5, 0, 0, {}),
                ClkselWord(7, 3, 0, {10, 11})}

\* The three CLKDIV words <<CLKDIV1, CLKDIV2, CLKDIV3>>.
ClkdivWords ==
    { << Clkdiv1Word(0, 0, 0, {}), Clkdiv2Word(0, 3, {}), Clkdiv3Word(0, {}) >>,
      << Clkdiv1Word(3, 31, 7, {0, 25, 31}), Clkdiv2Word(2, 1, {0, 31}),
         Clkdiv3Word(9, {10, 16}) >>,
      << Clkdiv1Word(1, 15, 31, {21}), Clkdiv2Word(3, 0, {}), Clkdiv3Word(31, {}) >> }

\* The rates callers ask for: one above every parent rate, an SD clock and a
\* UART baud clock (16 x 115200).
TargetRates == {1000000000, 50000000, 1843200}

Settable == {CLK_SDHC, CLK_UART1, CLK_UART2}

\* The set_rate calls made: every rate on the settable clocks, one rate on
\* every other id.
SetArgs == (Settable \X TargetRates) \cup ((ClkIds \ Settable) \X {50000000})

\* The longest sequence of calls followed.
MaxCalls == 2

(***************************************************************************)
(* State                                                                   *)
(***************************************************************************)
VARIABLES
    regs,       \* the register file: offset -> word
    boot,       \* the register file as the driver found it at probe
    call,       \* the last call: what was asked, what came back
    lastSet,    \* the last set_rate call: registers are written by nothing else
    ncalls      \* the number of calls made

vars == <<regs, boot, call, lastSet, ncalls>>

Init ==
    /\ regs \in {[o \in RegOffsets |->
                    CASE o = CLKSEL -> sel
                      [] o = CLKDIV1 -> d[1]
                      [] o = CLKDIV2 -> d[2]
                      [] o = CLKDIV3 -> d[3]
                      [] o = PLLCON0 -> p[1]
                      [] o = PLLCON1 -> p[2]
                      [] o = PLLCON2 -> p[3]] :
                 sel \in ClkselWords, d \in ClkdivWords, p \in PllconWords}
    /\ boot = regs
    /\ call = [op |-> "probe", id |-> "none", rate |-> 0, ret |-> Ret(0),
               fin |-> -1, div |-> -1, pre |-> regs]
    /\ lastSet = [id |-> "none", ret |-> Ret(0)]
    /\ ncalls = 0

\* A caller may make a call while the machine runs: a call that trapped
\* never returned.
Running == ~call.ret.trap /\ ncalls < MaxCalls

\* .get_rate
GetRate(id) ==
    /\ Running
    /\ \E ret \in {npcm_clk_get_rate(regs, id, ub) : ub \in UbOutcomes} :
         call' = [op |-> "get_rate", id |-> id, rate |-> 0, ret |-> ret,
                  fin |-> -1, div |-> -1, pre |-> regs]
    /\ ncalls' = ncalls + 1
    /\ UNCHANGED <<regs, boot, lastSet>>

\* .set_rate
SetRate(id, rate) ==
    /\ Running
    /\ \E res \in {npcm_clk_set_rate(regs, id, rate, ub) : ub \in UbOutcomes} :
         /\ regs' = res.regs
         /\ call' = [op |-> "set_rate", id |-> id, rate |-> rate, ret |-> res.ret,
                     fin |-> res.fin, div |-> res.div, pre |-> regs]
         /\ lastSet' = [id |-> id, ret |-> res.ret]
    /\ ncalls' = ncalls + 1
    /\ UNCHANGED boot

Next ==
    \/ \E id \in ClkIds : GetRate(id)
    \/ \E a \in SetArgs : SetRate(a[1], a[2])

Spec == Init /\ [][Next]_vars

(***************************************************************************)
(* What the properties are stated in: the documented register layout and   *)
(* formulas, written out directly and not through the driver's table,      *)
(* masks or maps.                                                          *)
(***************************************************************************)
\* The sum of 2^i over a set of exponents.
RECURSIVE SumPow(_)
SumPow(S) == IF S = {} THEN 0
             ELSE LET i == CHOOSE j \in S : TRUE IN 2^i + SumPow(S \ {i})

\* The number in bits hi..lo of a word.
BitsVal(w, hi, lo) == SumPow({i - lo : i \in w \cap (lo..hi)})

\* indv * otdv1 * otdv2 of a PLLCON word: bits 5:0, 10:8 and 15:13.
PllDivisor(w) == BitsVal(w, 5, 0) * BitsVal(w, 10, 8) * BitsVal(w, 15, 13)

\* floor(25,000,000 * fbdv / divisor), fbdv in bits 27:16, computed in kHz
\* steps so that no intermediate value passes 2^31; 0 for a zero divisor,
\* which is what a division by zero that returns at all returns.
ExpectedPllHz(w) ==
    LET khz == 25000 * BitsVal(w, 27, 16)
        d == PllDivisor(w)
    IN IF d = 0 THEN 0 ELSE 1000 * (khz \div d) + (1000 * (khz % d)) \div d

PllIds == {CLK_PLL0, CLK_PLL1, CLK_PLL2, CLK_PLL2DIV2}

\* The PLLCON register of a PLL id.
PllconOf(id) == CASE id = CLK_PLL0 -> PLLCON0
                  [] id = CLK_PLL1 -> PLLCON1
                  [] id \in {CLK_PLL2, CLK_PLL2DIV2} -> PLLCON2

\* The CPU-select field, and the PLLCON register a mapped value selects.
CpuSel(r) == BitsVal(r[CLKSEL], 2, 0)

CpuSelMapped(r) == CpuSel(r) \in {0, 1, 7}

CpuPllcon(r) == CASE CpuSel(r) = 0 -> PLLCON0
                  [] CpuSel(r) = 1 -> PLLCON1
                  [] CpuSel(r) = 7 -> PLLCON2

\* AHB: DIV_LINEAR with PRE_HALVE on CLKDIV1 27:26; APB2, APB5: DIV_POW2 on
\* CLKDIV2 27:26 and 23:22.
ExpectedAhbHz(r) ==
    ExpectedPllHz(r[CpuPllcon(r)]) \div (2 * (BitsVal(r[CLKDIV1], 27, 26) + 1))

ExpectedBusHz(r, id) ==
    CASE id = CLK_AHB -> ExpectedAhbHz(r)
      [] id = CLK_APB2 -> ExpectedAhbHz(r) \div (2^BitsVal(r[CLKDIV2], 27, 26))
      [] id = CLK_APB5 -> ExpectedAhbHz(r) \div (2^BitsVal(r[CLKDIV2], 23, 22))

BusIds == {CLK_AHB, CLK_APB2, CLK_APB5}

\* A returned value that is an errno (IS_ERR_VALUE).
IsErr(ret) == ~ret.trap /\ ret.val < 0

Returned(ret) == ~ret.trap /\ ret.val >= 0

\* The states in which the register file is new: the one probe found, and
\* each one a call left different from the one it found (call.pre is the
\* register file of the state before).  Every register state the driver
\* reaches is the register file of such a state.
NewRegs == call.op = "probe" \/ regs # call.pre

\* C2: the rate read for AHB, APB2 and APB5, with a mapped CPU-select
\* encoding, is the selected PLL's rate divided (rounding down) by
\* 2 * (f + 1) for AHB, and AHB's rate divided by 2^f for APB2 and APB5; the
\* call returns whenever the selected PLL's divisor is not zero.
C2_BusRates ==
    (call.op = "get_rate" /\ call.id \in BusIds /\ CpuSelMapped(call.pre)) =>
        /\ PllDivisor(call.pre[CpuPllcon(call.pre)]) # 0 => ~call.ret.trap
        /\ ~call.ret.trap => call.ret.val = ExpectedBusHz(call.pre, call.id)

\* C2's case: APB2 read behind non-trivial AHB and APB2 dividers.
C2_Witness ==
    /\ call.op = "get_rate" /\ call.id = CLK_APB2 /\ CpuSelMapped(call.pre)
    /\ BitsVal(call.pre[CLKDIV1], 27, 26) = 3
    /\ BitsVal(call.pre[CLKDIV2], 27, 26) = 2
    /\ Returned(call.ret) /\ call.ret.val = 25000000

\* C3: a query that resolves a node's input through an unmapped mux
\* encoding returns an error to the caller, never a rate.
C3_UnknownSelectorFails ==
    (call.op = "get_rate" /\ call.id \in BusIds /\ ~CpuSelMapped(call.pre)) =>
        IsErr(call.ret)

\* C4: the rate query of a PLL whose divisor is zero returns an error.
C4_PllDivisionByZeroFails ==
    (call.op = "get_rate" /\ call.id \in PllIds
        /\ PllDivisor(call.pre[PllconOf(call.id)]) = 0) => IsErr(call.ret)

\* C5: with non-zero dividers a PLL's rate is
\* floor(25,000,000 * fbdv / (indv * otdv1 * otdv2)), halved afterwards for
\* PLL2DIV2; and in every register state, whenever both queries return,
\* PLL2DIV2's rate is half of PLL2's, rounded down.
C5_PllFormula ==
    /\ (call.op = "get_rate" /\ call.id \in PllIds
           /\ PllDivisor(call.pre[PllconOf(call.id)]) # 0) =>
          /\ ~call.ret.trap
          /\ call.ret.val = IF call.id = CLK_PLL2DIV2
                            THEN ExpectedPllHz(call.pre[PLLCON2]) \div 2
                            ELSE ExpectedPllHz(call.pre[PllconOf(call.id)])
    /\ NewRegs =>
          \A half \in {npcm_clk_get_rate(regs, CLK_PLL2DIV2, ub) : ub \in UbOutcomes} :
          \A full \in {npcm_clk_get_rate(regs, CLK_PLL2, ub) : ub \in UbOutcomes} :
             (~half.trap /\ ~full.trap) => half.val = full.val \div 2

\* C5's case: PLL2DIV2 read at 533,333,333 Hz / 2, and a PLL with every
\* field at its maximum.
C5_Witness ==
    /\ call.op = "get_rate" /\ call.id = CLK_PLL2DIV2
    /\ Returned(call.ret) /\ call.ret.val = 266666666
    /\ BitsVal(call.pre[PLLCON1], 27, 16) = 4095

\* The shared-select field of a settable node: SDCKSEL 7:6, UARTCKSEL 9:8.
SharedSel(r, id) == IF id = CLK_SDHC THEN BitsVal(r[CLKSEL], 7, 6)
                    ELSE BitsVal(r[CLKSEL], 9, 8)

\* The divider field of a settable node: MMCCKDIV, CLKDIV1 15:11; UARTDIV1,
\* CLKDIV1 20:16; UARTDIV2, CLKDIV3 15:11.
DivField(r, id) == CASE id = CLK_SDHC -> BitsVal(r[CLKDIV1], 15, 11)
                     [] id = CLK_UART1 -> BitsVal(r[CLKDIV1], 20, 16)
                     [] id = CLK_UART2 -> BitsVal(r[CLKDIV3], 15, 11)

\* The input a shared-select encoding stands for: 0 PLL0, 1 PLL1, 3 PLL2 / 2.
ExpectedSharedHz(r, sel) ==
    CASE sel = 0 -> ExpectedPllHz(r[PLLCON0])
      [] sel = 1 -> ExpectedPllHz(r[PLLCON1])
      [] sel = 3 -> ExpectedPllHz(r[PLLCON2]) \div 2

\* C1: a get_rate that follows a set_rate of the same settable clock, with
\* no register write in between, returns the rate that set_rate returned.
C1_RoundTrip ==
    (call.op = "get_rate" /\ call.id \in Settable /\ lastSet.id = call.id
        /\ Returned(lastSet.ret)) => call.ret = lastSet.ret

\* C6: set_rate of a UART clock leaves the UART mux on encoding 3 and takes
\* half of PLL2's rate as its input; set_rate of SDHC leaves the SD mux on
\* encoding 0 and takes PLL0's rate; and in every register state the input
\* of a UART node resolves to PLL0 for encoding 0, PLL1 for encoding 1 and
\* half of PLL2 for encoding 3.
C6_MuxResolution ==
    /\ (call.op = "set_rate" /\ call.id \in Settable) =>
          /\ SharedSel(regs, call.id) = (IF call.id = CLK_SDHC THEN 0 ELSE 3)
          /\ PllDivisor(call.pre[IF call.id = CLK_SDHC THEN PLLCON0 ELSE PLLCON2]) # 0
                => call.fin >= 0
          /\ call.fin >= 0 =>
                call.fin = ExpectedSharedHz(call.pre, SharedSel(regs, call.id))
    /\ NewRegs => \A id \in {CLK_UART1, CLK_UART2}, ub \in UbOutcomes :
          \A fin \in {npcm_clk_get_fin(regs, npcm8xx_clks[npcm_clk_get(id)], ub)} :
             (~fin.trap /\ SharedSel(regs, id) \in {0, 1, 3}) =>
                 fin.val = ExpectedSharedHz(regs, SharedSel(regs, id))

\* C6's case: set_rate(UART1) with PLL2 at 533,333,333 Hz and the UART mux
\* first on another encoding.
C6_Witness ==
    /\ call.op = "set_rate" /\ call.id = CLK_UART1
    /\ SharedSel(call.pre, CLK_UART1) # 3
    /\ call.fin = 266666666

\* C7: get_rate of an id without a rate path and set_rate of an id that is
\* not settable return -ENOSYS and leave every register as it was.
C7_NotImplemented ==
    /\ (call.op = "get_rate" /\ call.id \notin ({CLK_REFCLK} \cup PllIds \cup BusIds)) =>
          (call.ret = Ret(-ENOSYS) /\ regs = call.pre)
    /\ (call.op = "set_rate" /\ call.id \notin Settable) =>
          (call.ret = Ret(-ENOSYS) /\ regs = call.pre)

\* C7's case: set_rate of a PLL after an earlier set_rate wrote registers.
C7_Witness ==
    /\ call.op = "set_rate" /\ call.id = CLK_PLL0
    /\ regs # boot

\* ceil(n / d) for d > 0.
Ceil(n, d) == (n \div d) + (IF n % d = 0 THEN 0 ELSE 1)

\* The divisor the specification asks for: ceil(I / target), at least 1.
ClampedDiv(fin, rate) == IF Ceil(fin, rate) < 1 THEN 1 ELSE Ceil(fin, rate)

\* C8: set_rate divides the resolved input I by ceil(I / target) clamped to
\* a minimum of 1 and returns the quotient, which never exceeds the target.
C8_DivisorClamped ==
    (call.op = "set_rate" /\ call.id \in Settable /\ call.fin >= 0) =>
        /\ call.div = ClampedDiv(call.fin, call.rate)
        /\ Returned(call.ret)
        /\ call.ret.val = call.fin \div ClampedDiv(call.fin, call.rate)
        /\ call.ret.val <= call.rate

\* C9: after set_rate returns, the divider field read back is div - 1 for
\* the divisor that produced the returned rate, so that I / (field + 1) is
\* the returned rate.
C9_FieldReadBack ==
    (call.op = "set_rate" /\ call.id \in Settable /\ call.div >= 1
        /\ Returned(call.ret)) =>
        /\ DivField(regs, call.id) = call.div - 1
        /\ call.fin \div (DivField(regs, call.id) + 1) = call.ret.val

\* The bits set_rate of a settable node may change in a register: those of
\* its mux field in CLKSEL and of its divider field in its divider register.
FrameBits(id, o) ==
    CASE id = CLK_SDHC /\ o = CLKSEL -> 6..7
      [] id = CLK_SDHC /\ o = CLKDIV1 -> 11..15
      [] id = CLK_UART1 /\ o = CLKSEL -> 8..9
      [] id = CLK_UART1 /\ o = CLKDIV1 -> 16..20
      [] id = CLK_UART2 /\ o = CLKSEL -> 8..9
      [] id = CLK_UART2 /\ o = CLKDIV3 -> 11..15
      [] OTHER -> {}

\* The bits in which two words differ.
DiffBits(v, w) == (v \ w) \cup (w \ v)

\* C10: set_rate of a settable node changes no bit outside its mux field
\* and its divider field; and whatever calls were made since probe, the
\* rates of AHB, APB2, APB5 and of every PLL are those of the registers as
\* probe found them.
C10_Frame ==
    /\ (call.op = "set_rate" /\ call.id \in Settable) =>
          \A o \in RegOffsets :
              DiffBits(regs[o], call.pre[o]) \subseteq FrameBits(call.id, o)
    /\ (NewRegs /\ regs # boot) =>
          \A id \in BusIds \cup PllIds, ub \in UbOutcomes :
              npcm_clk_get_rate(regs, id, ub) = npcm_clk_get_rate(boot, id, ub)

\* C10's case: two set_rate calls have rewritten both UARTDIV1 and MMCCKDIV,
\* which share CLKDIV1 with AHB's divider, the second with a divisor too
\* large for its field.
C10_Witness ==
    /\ call.op = "set_rate" /\ call.id = CLK_UART1 /\ call.div > 32
    /\ BitsVal(regs[CLKDIV1], 15, 11) # BitsVal(boot[CLKDIV1], 15, 11)
    /\ BitsVal(regs[CLKDIV1], 20, 16) # BitsVal(boot[CLKDIV1], 20, 16)
    /\ BitsVal(regs[CLKDIV1], 27, 26) # 0

=============================================================================
